---- MODULE Spec2Model ----
(***************************************************************************)
(* Model of awslabs.core_mcp_server.server: the keyword matcher            *)
(* suggest_servers and the capability loader require_server, as tools of   *)
(* the module-level FastMCP instance mcp.                                  *)
(*                                                                         *)
(* A keyword is a sequence of one-character strings, so that str.lower()   *)
(* is computed character by character.  Server identifiers are strings.    *)
(***************************************************************************)
EXTENDS Integers, Sequences, FiniteSets, TLC

VARIABLES calls, mounted, notifications

vars == <<calls, mounted, notifications>>

Range(s) == {s[i] : i \in DOMAIN s}

(***************************************************************************)
(* Bounds of the model.                                                    *)
(***************************************************************************)
\* longest keyword list handed to suggest_servers in MatcherSpec
MaxKeywords == 3
\* number of tool calls the dispatcher receives in Spec
MaxCalls == 2

(***************************************************************************)
(* str.lower() on ASCII letters (server.py line 118).                      *)
(***************************************************************************)
UpperCase == <<"A","B","C","D","E","F","G","H","I","J","K","L","M",
               "N","O","P","Q","R","S","T","U","V","W","X","Y","Z">>
LowerCase == <<"a","b","c","d","e","f","g","h","i","j","k","l","m",
               "n","o","p","q","r","s","t","u","v","w","x","y","z">>

lower_char(c) ==
    IF \E i \in DOMAIN UpperCase : UpperCase[i] = c
    THEN LowerCase[CHOOSE i \in DOMAIN UpperCase : UpperCase[i] = c]
    ELSE c

\* a lower() that leaves its argument alone
lower_identity(kw) == kw

lower(kw) == [i \in DOMAIN kw |-> lower_char(kw[i])]

(***************************************************************************)
(* The literals the rules compare with (lines 119, 124, 129).              *)
(***************************************************************************)
KW_EKS == <<"e","k","s">>
KW_LAMBDA == <<"l","a","m","b","d","a">>
KW_CONTAINER == <<"c","o","n","t","a","i","n","e","r">>

(***************************************************************************)
(* The lists suggest_servers returns.                                      *)
(***************************************************************************)
\* the first rule's list with an identifier the catalog does not hold
EKS_SERVERS_free_form == <<"awslabs.eks-mcp-server", "awslabs.serverless-mcp-server">>

EKS_SERVERS == <<"awslabs.eks-mcp-server", "awslabs.aws-serverless-mcp-server">>

LAMBDA_SERVERS == <<"awslabs.lambda-tool-mcp-server", "awslabs.mcp-lambda-handler">>

\* the third rule's list in the other order
CONTAINER_SERVERS_swapped == <<"awslabs.finch-mcp-server", "awslabs.ecs-mcp-server">>

CONTAINER_SERVERS == <<"awslabs.ecs-mcp-server", "awslabs.finch-mcp-server">>

ALL_SERVERS ==
    << "awslabs.amazon-kendra-index-mcp-server",
       "awslabs.amazon-mq-mcp-server",
       "awslabs.amazon-neptune-mcp-server",
       "awslabs.amazon-sns-sqs-mcp-server",
       "awslabs.aurora-dsql-mcp-server",
       "awslabs.aws-diagram-mcp-server",
       "awslabs.aws-documentation-mcp-server",
       "awslabs.aws-location-mcp-server",
       "awslabs.aws-serverless-mcp-server",
       "awslabs.aws-support-mcp-server",
       "awslabs.bedrock-kb-retrieval-mcp-server",
       "awslabs.cdk-mcp-server",
       "awslabs.cfn-mcp-server",
       "awslabs.cloudwatch-logs-mcp-server",
       "awslabs.code-doc-gen-mcp-server",
       "awslabs.core-mcp-server",
       "awslabs.cost-analysis-mcp-server",
       "awslabs.documentdb-mcp-server",
       "awslabs.dynamodb-mcp-server",
       "awslabs.ecs-mcp-server",
       "awslabs.eks-mcp-server",
       "awslabs.finch-mcp-server",
       "awslabs.frontend-mcp-server",
       "awslabs.git-repo-research-mcp-server",
       "awslabs.lambda-tool-mcp-server",
       "awslabs.mcp-lambda-handler",
       "awslabs.memcached-mcp-server",
       "awslabs.mysql-mcp-server",
       "awslabs.nova-canvas-mcp-server",
       "awslabs.postgres-mcp-server",
       "awslabs.stepfunctions-tool-mcp-server",
       "awslabs.syntheticdata-mcp-server",
       "awslabs.terraform-mcp-server",
       "awslabs.valkey-mcp-server" >>

(***************************************************************************)
(* suggest_servers (lines 118-172): the keywords are lowercased, then the  *)
(* first rule whose literal is an element of the lowercased list decides.  *)
(***************************************************************************)
\* the container rule tried before the lambda rule
suggest_servers_container_first(keywords) ==
    LET keywords_ == [i \in DOMAIN keywords |-> lower(keywords[i])]
    IN  IF KW_EKS \in Range(keywords_) THEN EKS_SERVERS
        ELSE IF KW_CONTAINER \in Range(keywords_) THEN CONTAINER_SERVERS
        ELSE IF KW_LAMBDA \in Range(keywords_) THEN LAMBDA_SERVERS
        ELSE ALL_SERVERS

\* `literal in kw` on each keyword (a prefix test) where the code tests
\* `literal in keywords_` on the list
IsPrefix(p, kw) == Len(p) <= Len(kw) /\ SubSeq(kw, 1, Len(p)) = p

suggest_servers_substring(keywords) ==
    LET keywords_ == [i \in DOMAIN keywords |-> lower(keywords[i])]
        Has(lit) == \E i \in DOMAIN keywords_ : IsPrefix(lit, keywords_[i])
    IN  IF Has(KW_EKS) THEN EKS_SERVERS
        ELSE IF Has(KW_LAMBDA) THEN LAMBDA_SERVERS
        ELSE IF Has(KW_CONTAINER) THEN CONTAINER_SERVERS
        ELSE ALL_SERVERS

suggest_servers(keywords) ==
    LET keywords_ == [i \in DOMAIN keywords |-> lower(keywords[i])]
    IN  IF KW_EKS \in Range(keywords_) THEN EKS_SERVERS
        ELSE IF KW_LAMBDA \in Range(keywords_) THEN LAMBDA_SERVERS
        ELSE IF KW_CONTAINER \in Range(keywords_) THEN CONTAINER_SERVERS
        ELSE ALL_SERVERS

(***************************************************************************)
(* Inputs.                                                                 *)
(***************************************************************************)
\* the keywords callers send: the three literals in several letter cases,
\* a keyword that only contains a literal, an unrelated one, the empty one
Vocabulary ==
    { <<"e","k","s">>, <<"E","K","S">>, <<"e","K","s">>,
      <<"l","a","m","b","d","a">>, <<"L","a","m","b","d","a">>,
      <<"c","o","n","t","a","i","n","e","r">>,
      <<"C","O","N","T","A","I","N","E","R">>,
      <<"e","k","s","-","c","l","u","s","t","e","r">>,
      <<"s","3">>,
      <<>> }

RECURSIVE ListsUpTo(_, _)
ListsUpTo(S, n) ==
    IF n = 0 THEN {<<>>}
    ELSE LET shorter == ListsUpTo(S, n - 1)
         IN  shorter \cup {Append(l, x) : l \in {m \in shorter : Len(m) = n - 1}, x \in S}

KeywordLists == ListsUpTo(Vocabulary, MaxKeywords)

\* the keyword lists sent while require_server calls are in flight
SampleQueries ==
    { <<>>,
      << <<"E","K","S">> >>,
      << <<"s","3">>, <<"C","O","N","T","A","I","N","E","R">> >> }

Sessions == {"session1", "session2"}

ServerNames == {"awslabs.eks-mcp-server", "awslabs.cdk-mcp-server"}

\* str(e) of the exceptions the collaborators raise (an exception without
\* arguments has the empty text)
ErrorTexts == {"", "Connection closed"}

(***************************************************************************)
(* Results of a tool call.                                                 *)
(***************************************************************************)
Pending == [kind |-> "pending"]
Return(v) == [kind |-> "return", value |-> v]
ToolError(message) == [kind |-> "ToolError", message |-> message]
Cancelled == [kind |-> "cancelled"]

(***************************************************************************)
(* State.  calls: the tool calls received, in arrival order, each with the *)
(* position of its handler.  mounted: the servers mounted on mcp (line     *)
(* 60), each with its prefix.  notifications: per session, the number of   *)
(* tool-list-changed notifications sent on it.                             *)
(***************************************************************************)
Init ==
    /\ calls = <<>>
    /\ mounted = <<>>
    /\ notifications = [s \in Sessions |-> 0]

\* raised: the call of the handler that raised ("" when none did), with
\* error_text the str(e) of what it raised; mounted: line 98 has returned
Call(op, s, name, kws, pc, raised, e, done_mount, result) ==
    [op |-> op, session |-> s, server_name |-> name, keywords |-> kws,
     pc |-> pc, raised |-> raised, error_text |-> e, mounted |-> done_mount,
     result |-> result]

(***************************************************************************)
(* suggest_servers as a tool: it has no await, the call is one step.       *)
(***************************************************************************)
CallSuggestServers(s, kws) ==
    /\ calls' = Append(calls,
                       Call("suggest_servers", s, "", kws, "done", "", "",
                            FALSE, Return(suggest_servers(kws))))
    /\ UNCHANGED <<mounted, notifications>>

(***************************************************************************)
(* require_server (lines 87-103).                                          *)
(***************************************************************************)
REQUIRED_PREFIX == "required"

\* mcp.mount(prefix=..., server=...) (line 98): afterwards the server is
\* mounted under the prefix.  Every call passes the same prefix; the source
\* does not fix whether FastMCP keeps a server mounted earlier under that
\* prefix or replaces it, so both outcomes are possible.
Mount(reg, prefix, server) ==
    LET entry == [prefix |-> prefix, server |-> server]
    IN  { Append(reg, entry),
          Append(SelectSeq(reg, LAMBDA m : m.prefix # prefix), entry) }

\* the message without the server's name
ToolErrorMessage_no_name(server_name, e) == <<"Failed to require. Error: ", e>>

\* f'Failed to require {server_name}. Error: {str(e)}' (line 103), as the
\* sequence of its parts
ToolErrorMessage(server_name, e) == <<"Failed to require ", server_name, ". Error: ", e>>

\* an except clause that takes the server mounted last off again
ExceptClause_rollback(reg, server_name, e) ==
    [mounted |-> IF reg = <<>> THEN reg ELSE SubSeq(reg, 1, Len(reg) - 1),
     result |-> ToolError(ToolErrorMessage(server_name, e))]

\* the except clause (lines 102-103): it raises ToolError and touches
\* nothing else, whatever was mounted stays mounted
ExceptClause(reg, server_name, e) ==
    [mounted |-> reg, result |-> ToolError(ToolErrorMessage(server_name, e))]

\* a send that sends nothing
send_tool_list_changed_skipped(notes, s) == notes

\* session.send_tool_list_changed() (line 100) when it succeeds
send_tool_list_changed(notes, s) == [notes EXCEPT ![s] = @ + 1]

\* lines 88-99 run without an await: FastMCP.as_proxy builds the proxy and
\* mcp.mount mounts it, then the handler suspends in line 100
RequireServerMount(s, name) ==
    /\ \E reg \in Mount(mounted, REQUIRED_PREFIX, name) : mounted' = reg
    /\ calls' = Append(calls,
                       Call("require_server", s, name, <<>>, "send_tool_list_changed",
                            "", "", TRUE, Pending))
    /\ UNCHANGED notifications

\* FastMCP.as_proxy raises (lines 88-97)
RequireServerProxyFails(s, name, e) ==
    LET out == ExceptClause(mounted, name, e)
    IN  /\ mounted' = out.mounted
        /\ calls' = Append(calls,
                           Call("require_server", s, name, <<>>, "done",
                                "as_proxy", e, FALSE, out.result))
        /\ UNCHANGED notifications

\* mcp.mount raises (line 98)
RequireServerMountFails(s, name, e) ==
    LET out == ExceptClause(mounted, name, e)
    IN  /\ mounted' = out.mounted
        /\ calls' = Append(calls,
                           Call("require_server", s, name, <<>>, "done",
                                "mount", e, FALSE, out.result))
        /\ UNCHANGED notifications

\* the notification is sent and the handler returns 'Success' (lines 100-101)
RequireServerSuccess(i) ==
    /\ calls[i].pc = "send_tool_list_changed"
    /\ notifications' = send_tool_list_changed(notifications, calls[i].session)
    /\ calls' = [calls EXCEPT ![i].pc = "done", ![i].result = Return("Success")]
    /\ UNCHANGED mounted

\* session.send_tool_list_changed() raises (line 100)
RequireServerNotifyFails(i, e) ==
    LET out == ExceptClause(mounted, calls[i].server_name, e)
    IN  /\ calls[i].pc = "send_tool_list_changed"
        /\ mounted' = out.mounted
        /\ calls' = [calls EXCEPT ![i].pc = "done",
                                  ![i].raised = "send_tool_list_changed",
                                  ![i].error_text = e,
                                  ![i].result = out.result]
        /\ UNCHANGED notifications

\* the task is cancelled while it waits in line 100: CancelledError is no
\* Exception, line 102 does not catch it and the call has no result
RequireServerCancelled(i) ==
    /\ calls[i].pc = "send_tool_list_changed"
    /\ calls' = [calls EXCEPT ![i].pc = "done", ![i].result = Cancelled]
    /\ UNCHANGED <<mounted, notifications>>

(***************************************************************************)
(* The dispatcher: calls arrive from any session and interleave at the     *)
(* await of line 100.                                                      *)
(***************************************************************************)
Next ==
    \/ \E s \in Sessions, kws \in SampleQueries :
          Len(calls) < MaxCalls /\ CallSuggestServers(s, kws)
    \/ \E s \in Sessions, name \in ServerNames :
          Len(calls) < MaxCalls /\ RequireServerMount(s, name)
    \/ \E s \in Sessions, name \in ServerNames, e \in ErrorTexts :
          Len(calls) < MaxCalls /\ RequireServerProxyFails(s, name, e)
    \/ \E s \in Sessions, name \in ServerNames, e \in ErrorTexts :
          Len(calls) < MaxCalls /\ RequireServerMountFails(s, name, e)
    \/ \E i \in DOMAIN calls : RequireServerSuccess(i)
    \/ \E i \in DOMAIN calls, e \in ErrorTexts : RequireServerNotifyFails(i, e)
    \/ \E i \in DOMAIN calls : RequireServerCancelled(i)

Spec == Init /\ [][Next]_vars

(***************************************************************************)
(* The matcher alone: one suggest_servers call on any keyword list of the  *)
(* vocabulary.                                                             *)
(***************************************************************************)
MatcherNext ==
    /\ calls = <<>>
    /\ \E s \in Sessions, kws \in KeywordLists : CallSuggestServers(s, kws)

MatcherSpec == Init /\ [][MatcherNext]_vars

(***************************************************************************)
(* Properties of suggest_servers, checked under MatcherSpec.               *)
(***************************************************************************)
\* c is the letter l in either case, or the same character
SameLetter(c, l) ==
    c = l \/ \E k \in DOMAIN LowerCase : LowerCase[k] = l /\ UpperCase[k] = c

\* the keyword equals the literal when letter case is ignored
EqualsIgnoringCase(kw, lit) ==
    Len(kw) = Len(lit) /\ \A i \in DOMAIN kw : SameLetter(kw[i], lit[i])

Names(kws, lit) == \E k \in DOMAIN kws : EqualsIgnoringCase(kws[k], lit)

SuggestCalls == {i \in DOMAIN calls : calls[i].op = "suggest_servers"}

RequireCalls == {i \in DOMAIN calls : calls[i].op = "require_server"}

\* C1: whenever some keyword is "eks" in any letter case, at any position and
\* whatever the other keywords are, suggest_servers returns exactly
\* ['awslabs.eks-mcp-server', 'awslabs.aws-serverless-mcp-server'].
C1_EksFirst ==
    \A i \in SuggestCalls :
        Names(calls[i].keywords, KW_EKS) =>
            calls[i].result =
                Return(<<"awslabs.eks-mcp-server", "awslabs.aws-serverless-mcp-server">>)

\* an upper-case "EKS" in last position, after "lambda" and "container"
C1_Witness ==
    \E i \in SuggestCalls :
        /\ Len(calls[i].keywords) = 3
        /\ calls[i].keywords[1] = KW_LAMBDA
        /\ calls[i].keywords[2] = KW_CONTAINER
        /\ calls[i].keywords[3] = <<"E","K","S">>
        /\ calls[i].result.value[1] = "awslabs.eks-mcp-server"

\* C2: whenever some keyword is "lambda" in any letter case and none is "eks",
\* suggest_servers returns exactly
\* ['awslabs.lambda-tool-mcp-server', 'awslabs.mcp-lambda-handler'],
\* also when "container" is present.
C2_LambdaSecond ==
    \A i \in SuggestCalls :
        (Names(calls[i].keywords, KW_LAMBDA) /\ ~Names(calls[i].keywords, KW_EKS)) =>
            calls[i].result =
                Return(<<"awslabs.lambda-tool-mcp-server", "awslabs.mcp-lambda-handler">>)

\* "container" before a capitalised "Lambda", no "eks"
C2_Witness ==
    \E i \in SuggestCalls :
        /\ Len(calls[i].keywords) >= 2
        /\ calls[i].keywords[1] = KW_CONTAINER
        /\ calls[i].keywords[2] = <<"L","a","m","b","d","a">>
        /\ ~Names(calls[i].keywords, KW_EKS)
        /\ calls[i].result.value[1] = "awslabs.lambda-tool-mcp-server"

\* C3: whenever some keyword is "container" in any letter case and none is
\* "eks" or "lambda", suggest_servers returns exactly
\* ['awslabs.ecs-mcp-server', 'awslabs.finch-mcp-server'].
C3_ContainerThird ==
    \A i \in SuggestCalls :
        ( /\ Names(calls[i].keywords, KW_CONTAINER)
          /\ ~Names(calls[i].keywords, KW_EKS)
          /\ ~Names(calls[i].keywords, KW_LAMBDA) ) =>
            calls[i].result =
                Return(<<"awslabs.ecs-mcp-server", "awslabs.finch-mcp-server">>)

\* an upper-case "CONTAINER" after "eks-cluster" and "s3"
C3_Witness ==
    \E i \in SuggestCalls :
        /\ Len(calls[i].keywords) = 3
        /\ calls[i].keywords[1] = <<"e","k","s","-","c","l","u","s","t","e","r">>
        /\ calls[i].keywords[2] = <<"s","3">>
        /\ calls[i].keywords[3] = <<"C","O","N","T","A","I","N","E","R">>
        /\ calls[i].result.value[1] = "awslabs.ecs-mcp-server"

\* C4: for the empty keyword list and for every list none of whose keywords
\* is "eks", "lambda" or "container" in any letter case (a keyword that only
\* contains one of them is no match), suggest_servers returns the whole
\* catalog in its declared order, and the catalog holds no identifier twice.
C4_FallbackCatalog ==
    \A i \in SuggestCalls :
        ( /\ ~Names(calls[i].keywords, KW_EKS)
          /\ ~Names(calls[i].keywords, KW_LAMBDA)
          /\ ~Names(calls[i].keywords, KW_CONTAINER) ) =>
            /\ calls[i].result = Return(ALL_SERVERS)
            /\ Len(calls[i].result.value) = 34
            /\ calls[i].result.value[1] = "awslabs.amazon-kendra-index-mcp-server"
            /\ calls[i].result.value[34] = "awslabs.valkey-mcp-server"
            /\ \A a, b \in DOMAIN calls[i].result.value :
                   calls[i].result.value[a] = calls[i].result.value[b] => a = b

\* "eks-cluster" among the keywords, and the whole catalog returned
C4_Witness ==
    \E i \in SuggestCalls :
        /\ <<"e","k","s","-","c","l","u","s","t","e","r">> \in Range(calls[i].keywords)
        /\ Len(calls[i].result.value) = 34

\* C5: every identifier suggest_servers returns is an identifier of the
\* catalog, the list the fallback rule returns.
C5_ResultsInCatalog ==
    \A i \in SuggestCalls :
        \A k \in DOMAIN calls[i].result.value :
            calls[i].result.value[k] \in Range(ALL_SERVERS)

\* the first rule's two identifiers returned, both of the catalog
C5_Witness ==
    \E i \in SuggestCalls :
        /\ Names(calls[i].keywords, KW_EKS)
        /\ Len(calls[i].result.value) = 2
        /\ Range(calls[i].result.value) \subseteq Range(ALL_SERVERS)

(***************************************************************************)
(* Properties of require_server, checked under Spec.                       *)
(***************************************************************************)
Succeeded(i) ==
    /\ calls[i].op = "require_server"
    /\ calls[i].result.kind = "return"
    /\ calls[i].result.value = "Success"

\* C7: on every session at least as many tool-list-changed notifications
\* have been sent as require_server calls of that session returned
\* 'Success', and a call that returned 'Success' had mounted its server.
C7_NotifiedPerSuccess ==
    /\ \A s \in Sessions :
           notifications[s] >=
               Cardinality({i \in DOMAIN calls : calls[i].session = s /\ Succeeded(i)})
    /\ \A i \in DOMAIN calls : Succeeded(i) => calls[i].mounted

\* two calls of one session returned 'Success', two notifications sent on it
C7_Witness ==
    \E s \in Sessions :
        /\ notifications[s] = 2
        /\ Cardinality({i \in DOMAIN calls : calls[i].session = s /\ Succeeded(i)}) = 2

\* C8: a require_server call in which FastMCP.as_proxy or mcp.mount raised
\* ends with one ToolError whose message holds the requested identifier and
\* the text of what was raised, it does not return 'Success', and the calls
\* answered afterwards are answered as usual: suggest_servers with its list,
\* require_server with 'Success', a ToolError or a cancellation of its own.
C8_FailureIsToolError ==
    /\ \A i \in RequireCalls :
           calls[i].raised \in {"as_proxy", "mount"} =>
               /\ calls[i].pc = "done"
               /\ calls[i].result.kind = "ToolError"
               /\ calls[i].server_name \in Range(calls[i].result.message)
               /\ calls[i].error_text \in Range(calls[i].result.message)
               /\ ~calls[i].mounted
    /\ \A i \in SuggestCalls :
           calls[i].result = Return(suggest_servers(calls[i].keywords))
    /\ \A i \in RequireCalls :
           calls[i].pc = "done" =>
               \/ Succeeded(i) /\ calls[i].raised = ""
               \/ calls[i].result.kind = "cancelled" /\ calls[i].raised = ""
               \/ calls[i].result.kind = "ToolError" /\ calls[i].raised # ""

\* the launch of one server failed, and the next call of the same session,
\* for another server, returned 'Success'
C8_Witness ==
    \E i, j \in RequireCalls :
        /\ i < j
        /\ calls[i].raised = "as_proxy"
        /\ calls[i].error_text = "Connection closed"
        /\ calls[i].result.kind = "ToolError"
        /\ calls[j].session = calls[i].session
        /\ calls[j].server_name # calls[i].server_name
        /\ Succeeded(j)

\* the step in which line 100 raises in call i
NotifyFailsIn(i) ==
    /\ calls[i].pc = "send_tool_list_changed"
    /\ calls'[i].raised = "send_tool_list_changed"

====
